---- MODULE Spec2Model ----
(***************************************************************************)
(* The PawStore storefront component (src/frontend/src/App.js): the React  *)
(* state of App, its event handlers, the continuations of its fetch calls, *)
(* and the HTTP backend it talks to.                                        *)
(*                                                                         *)
(* JavaScript values are records: an object is the record of its fields,   *)
(* undefined is Undefined, null is Null; a state slot that holds an array  *)
(* or undefined holds Arr(seq) or Undefined. Reading a missing field gives *)
(* Undefined (Get); reading a field of undefined throws.                   *)
(*                                                                         *)
(* A user event is enabled when the element that carries its handler is    *)
(* rendered (the JSX conditions); the modal overlays are styling only and  *)
(* a button under an overlay can still be activated from the keyboard.     *)
(***************************************************************************)
EXTENDS Integers, Sequences, FiniteSets, TLC

VARIABLES
    products,        \* useState([])                       App.js:7
    cart,            \* useState({items: [], total: 0})     App.js:8
    selectedProduct, \* useState(null)                      App.js:9
    showCart,        \* useState(false)                     App.js:10
    showCheckout,    \* useState(false)                     App.js:11
    sessionId,       \* useState(() => Math.random()...)    App.js:12
    loading,         \* useState(true)                      App.js:13
    customerInfo,    \* useState({name, email, phone, address})  App.js:14
    mounted,         \* FALSE once a render has thrown (React unmounts the tree)
    net,             \* the fetch calls whose promise is still pending
    nIssued,         \* number of fetch calls made so far (the next request's id)
    nActions,        \* number of user actions that called the backend
    serverCarts,     \* backend: the cart stored for each session id
    orders,          \* backend: number of orders accepted
    consoleErrors,   \* number of console.error calls
    alerts,          \* number of alert calls, per message
    lastCarried      \* the cart carried by the cart response handled last

vars == <<products, cart, selectedProduct, showCart, showCheckout, sessionId,
          loading, customerInfo, mounted, net, nIssued, nActions, serverCarts,
          orders, consoleErrors, alerts, lastCarried>>

(* ------------------------------ bounds -------------------------------- *)

\* user actions that call the backend (add, update, remove, submit) per run
MaxActions == 2

(* ------------------------- JavaScript values -------------------------- *)

Undefined == [undefined |-> TRUE]
Null == [null |-> TRUE]
Arr(s) == [array |-> s]

\* o.f for an object o: the field, or undefined when o has no such field
Get(o, f) == IF f \in DOMAIN o THEN o[f] ELSE Undefined

\* o.f throws a TypeError when o is undefined or null
Throws(o) == o = Undefined \/ o = Null

EmptyCart == [items |-> <<>>, total |-> 0]

EmptyInfo == [name |-> "", email |-> "", phone |-> "", address |-> ""]

\* what Math.random().toString(36).substring(7) gives: a short base-36 string
SessionIds == {"k3j9x"}

\* the session ids the backend keeps a cart for: this client's and another's
Sessions == SessionIds \cup {"r7w2q"}

\* the product list the backend serves (prices in whole currency units)
Catalog == << [id |-> 1, price |-> 2] >>

\* what the user can have typed into a form field
FieldValues == {"", "a"}

\* the fields of the checkout form, top to bottom
Fields == <<"name", "email", "phone", "address">>

(* ------------------------------ backend ------------------------------- *)
(* The backend is not part of src/; it is modelled from the data model of  *)
(* the specification: a cart is a list of {product_id, quantity, price}    *)
(* and a total that the backend computes.                                   *)

RECURSIVE SumItems(_)
SumItems(items) ==
    IF items = <<>> THEN 0
    ELSE Head(items).price * Head(items).quantity + SumItems(Tail(items))

WithTotal(items) == [items |-> items, total |-> SumItems(items)]

CatalogIndex(pid) == (CHOOSE i \in 1..Len(Catalog) : Catalog[i].id = pid)

HasItem(c, pid) == \E i \in 1..Len(c.items) : c.items[i].product_id = pid

ServerAdd(c, pid, qty) ==
    IF HasItem(c, pid)
    THEN WithTotal([i \in 1..Len(c.items) |->
            IF c.items[i].product_id = pid
            THEN [c.items[i] EXCEPT !.quantity = @ + qty]
            ELSE c.items[i]])
    ELSE WithTotal(Append(c.items,
            [product_id |-> pid, quantity |-> qty, price |-> Catalog[CatalogIndex(pid)].price]))

ServerRemove(c, pid) ==
    WithTotal(SelectSeq(c.items, LAMBDA it : it.product_id # pid))

ServerUpdate(c, pid, qty) ==
    IF qty <= 0 THEN ServerRemove(c, pid)
    ELSE WithTotal([i \in 1..Len(c.items) |->
            IF c.items[i].product_id = pid
            THEN [c.items[i] EXCEPT !.quantity = qty]
            ELSE c.items[i]])

ErrorBody == [detail |-> "error"]

NoResp == [status |-> "pending", parseable |-> FALSE, data |-> Undefined]

\* an answer with a JSON body
Json(status, data) == [status |-> status, parseable |-> TRUE, data |-> data]

\* an answer whose body is not JSON (an HTML error page of a gateway)
Garbled == [status |-> "error", parseable |-> FALSE, data |-> Undefined]

\* the backend's cart for the session of request r, after r has been served
ServedCart(r) ==
    LET c == serverCarts[r.session] IN
    CASE r.kind = "add"    -> ServerAdd(c, r.pid, r.qty)
      [] r.kind = "update" -> ServerUpdate(c, r.pid, r.qty)
      [] r.kind = "remove" -> ServerRemove(c, r.pid)
      [] r.kind = "order"  -> EmptyCart
      [] OTHER             -> c

\* the JSON body the backend answers to r when it serves it
ServedBody(r) ==
    CASE r.kind = "products" -> [products |-> Catalog]
      [] r.kind = "cart"     -> serverCarts[r.session]
      [] r.kind = "add"      -> [message |-> "added", cart |-> ServedCart(r)]
      [] r.kind = "update"   -> [message |-> "updated", cart |-> ServedCart(r)]
      [] r.kind = "remove"   -> [message |-> "removed"]
      [] OTHER               -> [message |-> "created", order_id |-> orders + 1]

Answer(r, resp) == (net \ {r}) \cup {[r EXCEPT !.stage = "answered", !.resp = resp]}

\* the backend serves request r: it applies it and answers 2xx with a JSON body
ServerServe(r) ==
    /\ r \in net /\ r.stage = "sent"
    /\ net' = Answer(r, Json("ok", ServedBody(r)))
    /\ serverCarts' = IF r.kind = "products" THEN serverCarts
                      ELSE [serverCarts EXCEPT ![r.session] = ServedCart(r)]
    /\ orders' = IF r.kind = "order" THEN orders + 1 ELSE orders
    /\ UNCHANGED <<products, cart, selectedProduct, showCart, showCheckout,
                   sessionId, loading, customerInfo, mounted, nIssued, nActions,
                   consoleErrors, alerts, lastCarried>>

\* the backend refuses request r: a 4xx/5xx answer, with a JSON error body or
\* with a body that is not JSON; nothing is stored
ServerRefuse(r) ==
    /\ r \in net /\ r.stage = "sent"
    /\ \E resp \in {Json("error", ErrorBody), Garbled} : net' = Answer(r, resp)
    /\ UNCHANGED <<products, cart, selectedProduct, showCart, showCheckout,
                   sessionId, loading, customerInfo, mounted, nIssued, nActions,
                   serverCarts, orders, consoleErrors, alerts, lastCarried>>

(* ----------------------------- component ------------------------------ *)

\* a state setter of the component: React ignores it once the tree is unmounted
SetState(new, old) == IF mounted THEN new ELSE old

\* the render (App.js:114-529) returns without throwing: the spinner while
\* loading; otherwise cart.items.length (143), products.map (183) and, in the
\* cart and checkout modals, cart.total.toFixed (429, 515) must not throw
RenderOK(l, p, c, sc, sco) ==
    \/ l
    \/ /\ ~Throws(c) /\ "items" \in DOMAIN c
       /\ ~Throws(p)
       /\ (sc /\ Len(c.items) > 0) => "total" \in DOMAIN c
       /\ sco => "total" \in DOMAIN c

\* a session id made anew at each use instead of being kept in state
SessionRegenerated == CHOOSE s \in Sessions : s # sessionId

\* the session id as interpolated into a cart URL or put into an order body
SessionParam == sessionId

NoBody == [none |-> TRUE]

\* a fetch call: the request, pending until the backend's answer is handled;
\* inv is the id of the request that started the handler invocation
Request(kind, sess, pid, qty, body, inv) ==
    [id |-> nIssued + 1, inv |-> IF inv = 0 THEN nIssued + 1 ELSE inv,
     kind |-> kind, session |-> sess, pid |-> pid, qty |-> qty, body |-> body,
     stage |-> "sent", resp |-> NoResp]

\* the answer to r has arrived and response.json() resolves
Parsed(r) == r \in net /\ r.stage = "answered" /\ r.resp.parseable

\* fetch rejects: the connection fails, before or after the backend served
\* the request
Rejected(r) == r \in net

\* the answer has arrived and response.json() rejects
Unparseable(r) == r \in net /\ r.stage = "answered" /\ ~r.resp.parseable

Failed(r) == Rejected(r) \/ Unparseable(r)

Init ==
    /\ products = Arr(<<>>)
    /\ cart = EmptyCart
    /\ selectedProduct = Null
    /\ showCart = FALSE
    /\ showCheckout = FALSE
    /\ sessionId \in SessionIds
    /\ loading = TRUE
    /\ customerInfo = EmptyInfo
    /\ mounted = TRUE
    /\ net = {}
    /\ nIssued = 0
    /\ nActions = 0
    /\ serverCarts = [s \in Sessions |-> EmptyCart]
    /\ orders = 0
    /\ consoleErrors = 0
    /\ alerts = [added |-> 0, orderOk |-> 0, orderError |-> 0]
    /\ lastCarried = EmptyCart

\* useEffect(() => { fetchProducts(); fetchCart(); }, []): both fetches are
\* started, neither is awaited
MountEffect ==
    /\ nIssued = 0
    /\ net' = { Request("products", "-", 0, 0, NoBody, 0),
                [Request("cart", SessionParam, 0, 0, NoBody, 0)
                    EXCEPT !.id = nIssued + 2, !.inv = nIssued + 2] }
    /\ nIssued' = nIssued + 2
    /\ UNCHANGED <<products, cart, selectedProduct, showCart, showCheckout,
                   sessionId, loading, customerInfo, mounted, nActions,
                   serverCarts, orders, consoleErrors, alerts, lastCarried>>

\* fetchProducts, try block after the awaits, then finally
fetchProductsThen(r) ==
    /\ Parsed(r) /\ r.kind = "products"
    /\ products' = SetState(IF "products" \in DOMAIN r.resp.data
                            THEN Arr(r.resp.data.products) ELSE Undefined, products)
    /\ loading' = SetState(FALSE, loading)
    /\ mounted' = (mounted /\ RenderOK(loading', products', cart, showCart, showCheckout))
    /\ net' = net \ {r}
    /\ UNCHANGED <<cart, selectedProduct, showCart, showCheckout, sessionId,
                   customerInfo, nIssued, nActions, serverCarts, orders,
                   consoleErrors, alerts, lastCarried>>

\* fetchProducts, catch block, then finally
fetchProductsCatch(r) ==
    /\ Failed(r) /\ r.kind = "products"
    /\ consoleErrors' = consoleErrors + 1
    /\ loading' = SetState(FALSE, loading)
    /\ mounted' = (mounted /\ RenderOK(loading', products, cart, showCart, showCheckout))
    /\ net' = net \ {r}
    /\ UNCHANGED <<products, cart, selectedProduct, showCart, showCheckout,
                   sessionId, customerInfo, nIssued, nActions, serverCarts,
                   orders, alerts, lastCarried>>

\* fetchCart, try block after the awaits: setCart(data)
fetchCartThen(r) ==
    /\ Parsed(r) /\ r.kind = "cart"
    /\ cart' = SetState(r.resp.data, cart)
    /\ lastCarried' = r.resp.data
    /\ mounted' = (mounted /\ RenderOK(loading, products, cart', showCart, showCheckout))
    /\ net' = net \ {r}
    /\ UNCHANGED <<products, selectedProduct, showCart, showCheckout, sessionId,
                   loading, customerInfo, nIssued, nActions, serverCarts, orders,
                   consoleErrors, alerts>>

\* a catch block that only reports to the console (fetchCart, addToCart,
\* updateCartItem, removeFromCart)
ConsoleOnly(r) ==
    /\ consoleErrors' = consoleErrors + 1
    /\ net' = net \ {r}
    /\ UNCHANGED <<products, cart, selectedProduct, showCart, showCheckout,
                   sessionId, loading, customerInfo, mounted, nIssued, nActions,
                   serverCarts, orders, alerts, lastCarried>>

\* a catch block that falls back to an empty cart
fetchCartCatchReset(r) ==
    /\ Failed(r) /\ r.kind = "cart"
    /\ consoleErrors' = consoleErrors + 1
    /\ cart' = SetState(EmptyCart, cart)
    /\ net' = net \ {r}
    /\ UNCHANGED <<products, selectedProduct, showCart, showCheckout,
                   sessionId, loading, customerInfo, mounted, nIssued, nActions,
                   serverCarts, orders, alerts, lastCarried>>

fetchCartCatch(r) ==
    /\ Failed(r) /\ r.kind = "cart"
    /\ ConsoleOnly(r)

\* an addToCart that updates the local cart before the backend answers
addToCartOptimistic(productId, quantity) ==
    /\ net' = net \cup {Request("add", SessionParam, productId, quantity, NoBody, 0)}
    /\ nIssued' = nIssued + 1
    /\ nActions' = nActions + 1
    /\ cart' = ServerAdd(cart, productId, quantity)

\* addToCart up to its first await: the POST is sent, no state is set
addToCart(productId, quantity) ==
    /\ net' = net \cup {Request("add", SessionParam, productId, quantity, NoBody, 0)}
    /\ nIssued' = nIssued + 1
    /\ nActions' = nActions + 1
    /\ UNCHANGED cart

\* an addToCart continuation that adds the new line's price to the local total
addToCartThenSums(r) ==
    /\ Parsed(r) /\ r.kind = "add"
    /\ cart' = SetState(IF "cart" \in DOMAIN r.resp.data
                        THEN [r.resp.data.cart EXCEPT
                                !.total = cart.total + r.qty * Catalog[CatalogIndex(r.pid)].price]
                        ELSE Undefined, cart)
    /\ lastCarried' = Get(r.resp.data, "cart")
    /\ alerts' = [alerts EXCEPT !.added = @ + 1]
    /\ mounted' = (mounted /\ RenderOK(loading, products, cart', showCart, showCheckout))
    /\ net' = net \ {r}
    /\ UNCHANGED <<products, selectedProduct, showCart, showCheckout, sessionId,
                   loading, customerInfo, nIssued, nActions, serverCarts, orders,
                   consoleErrors>>

\* addToCart, try block after the awaits: setCart(data.cart); alert(...)
addToCartThen(r) ==
    /\ Parsed(r) /\ r.kind = "add"
    /\ cart' = SetState(Get(r.resp.data, "cart"), cart)
    /\ lastCarried' = Get(r.resp.data, "cart")
    /\ alerts' = [alerts EXCEPT !.added = @ + 1]
    /\ mounted' = (mounted /\ RenderOK(loading, products, cart', showCart, showCheckout))
    /\ net' = net \ {r}
    /\ UNCHANGED <<products, selectedProduct, showCart, showCheckout, sessionId,
                   loading, customerInfo, nIssued, nActions, serverCarts, orders,
                   consoleErrors>>

addToCartCatch(r) ==
    /\ Failed(r) /\ r.kind = "add"
    /\ ConsoleOnly(r)

\* updateCartItem up to its first await: the PUT is sent, no state is set
updateCartItem(productId, quantity) ==
    /\ net' = net \cup {Request("update", SessionParam, productId, quantity, NoBody, 0)}
    /\ nIssued' = nIssued + 1
    /\ nActions' = nActions + 1
    /\ UNCHANGED cart

\* updateCartItem, try block after the awaits: setCart(data.cart)
updateCartItemThen(r) ==
    /\ Parsed(r) /\ r.kind = "update"
    /\ cart' = SetState(Get(r.resp.data, "cart"), cart)
    /\ lastCarried' = Get(r.resp.data, "cart")
    /\ mounted' = (mounted /\ RenderOK(loading, products, cart', showCart, showCheckout))
    /\ net' = net \ {r}
    /\ UNCHANGED <<products, selectedProduct, showCart, showCheckout, sessionId,
                   loading, customerInfo, nIssued, nActions, serverCarts, orders,
                   consoleErrors, alerts>>

updateCartItemCatch(r) ==
    /\ Failed(r) /\ r.kind = "update"
    /\ ConsoleOnly(r)

\* a removeFromCart that does not await its DELETE before calling fetchCart
removeFromCartNoAwait(productId) ==
    /\ net' = net \cup
          { Request("remove", SessionParam, productId, 0, NoBody, 0),
            [Request("cart", SessionParam, 0, 0, NoBody, nIssued + 1)
                EXCEPT !.id = nIssued + 2] }
    /\ nIssued' = nIssued + 2
    /\ nActions' = nActions + 1
    /\ UNCHANGED cart

\* removeFromCart up to its await: the DELETE is sent, no state is set
removeFromCart(productId) ==
    /\ net' = net \cup {Request("remove", SessionParam, productId, 0, NoBody, 0)}
    /\ nIssued' = nIssued + 1
    /\ nActions' = nActions + 1
    /\ UNCHANGED cart

\* the requests removeFromCart makes once its DELETE has been answered:
\* fetchCart() (the answer's status and body are not read)
RemoveFollowUp(r) == {Request("cart", SessionParam, 0, 0, NoBody, r.inv)}

\* removeFromCart after the await
removeFromCartThen(r) ==
    /\ r \in net /\ r.kind = "remove" /\ r.stage = "answered"
    /\ net' = (net \ {r}) \cup RemoveFollowUp(r)
    /\ nIssued' = nIssued + 1
    /\ UNCHANGED <<products, cart, selectedProduct, showCart, showCheckout,
                   sessionId, loading, customerInfo, mounted, nActions,
                   serverCarts, orders, consoleErrors, alerts, lastCarried>>

\* removeFromCart, catch block: only a rejected fetch gets here
removeFromCartCatch(r) ==
    /\ Rejected(r) /\ r.kind = "remove"
    /\ ConsoleOnly(r)

\* an order object built from the form's initial values
OrderDataStaleInfo ==
    [session_id |-> SessionParam, items |-> cart.items, total |-> cart.total,
     customer_info |-> EmptyInfo]

\* the object submitOrder builds (App.js:87-92)
OrderData ==
    [session_id |-> SessionParam, items |-> cart.items, total |-> cart.total,
     customer_info |-> customerInfo]

\* submitOrder up to its first await: the POST is sent, no state is set
submitOrder ==
    /\ net' = net \cup {Request("order", SessionParam, 0, 0, OrderData, 0)}
    /\ nIssued' = nIssued + 1
    /\ nActions' = nActions + 1
    /\ UNCHANGED <<cart, customerInfo, showCart, showCheckout>>

\* submitOrder, try block after the awaits; response.ok and the status are
\* not read
submitOrderThen(r) ==
    /\ Parsed(r) /\ r.kind = "order"
    /\ alerts' = [alerts EXCEPT !.orderOk = @ + 1]
    /\ showCheckout' = SetState(FALSE, showCheckout)
    /\ showCart' = SetState(FALSE, showCart)
    /\ cart' = SetState(EmptyCart, cart)
    /\ customerInfo' = SetState(EmptyInfo, customerInfo)
    /\ mounted' = (mounted /\ RenderOK(loading, products, cart', showCart', showCheckout'))
    /\ net' = net \ {r}
    /\ UNCHANGED <<products, selectedProduct, sessionId, loading, nIssued,
                   nActions, serverCarts, orders, consoleErrors, lastCarried>>

\* submitOrder, catch block: console.error and alert
submitOrderCatch(r) ==
    /\ Failed(r) /\ r.kind = "order"
    /\ consoleErrors' = consoleErrors + 1
    /\ alerts' = [alerts EXCEPT !.orderError = @ + 1]
    /\ net' = net \ {r}
    /\ UNCHANGED <<products, cart, selectedProduct, showCart, showCheckout,
                   sessionId, loading, customerInfo, mounted, nIssued, nActions,
                   serverCarts, orders, lastCarried>>

(* ---------------------------- user events ----------------------------- *)

\* the page (not the spinner) is on screen
Page == mounted /\ ~loading

\* a user event that only sets view state
ViewOnly ==
    UNCHANGED <<products, cart, sessionId, loading, customerInfo, mounted,
                   net, nIssued, nActions, serverCarts, orders, consoleErrors,
                   alerts, lastCarried>>

\* what a user event that calls the backend leaves alone
CallOnly ==
    UNCHANGED <<products, sessionId, loading, mounted, serverCarts, orders,
                   consoleErrors, alerts, lastCarried>>

\* header Cart button (App.js:139-141)
ClickCart ==
    /\ Page
    /\ showCart' = TRUE
    /\ UNCHANGED <<selectedProduct, showCheckout>>
    /\ ViewOnly

\* View Details on a product card (App.js:228-230)
ClickViewDetails(i) ==
    /\ Page /\ i \in 1..Len(products.array)
    /\ selectedProduct' = products.array[i]
    /\ UNCHANGED <<showCart, showCheckout>>
    /\ ViewOnly

\* Add to Cart on a product card (App.js:234-236)
ClickAddToCart(i) ==
    /\ Page /\ i \in 1..Len(products.array) /\ nActions < MaxActions
    /\ addToCart(products.array[i].id, 1)
    /\ UNCHANGED <<selectedProduct, showCart, showCheckout, customerInfo>>
    /\ CallOnly

\* the x of the product modal (App.js:288-290)
CloseProduct ==
    /\ Page /\ selectedProduct # Null
    /\ selectedProduct' = Null
    /\ UNCHANGED <<showCart, showCheckout>>
    /\ ViewOnly

\* Add to Cart in the product modal (App.js:342-347)
ClickModalAddToCart ==
    /\ Page /\ selectedProduct # Null /\ nActions < MaxActions
    /\ addToCart(selectedProduct.id, 1)
    /\ selectedProduct' = Null
    /\ UNCHANGED <<showCart, showCheckout, customerInfo>>
    /\ CallOnly

\* the x of the cart modal and its two Continue Shopping buttons
\* (App.js:365-367, 376-378, 432-434)
CloseCart ==
    /\ Page /\ showCart
    /\ showCart' = FALSE
    /\ UNCHANGED <<selectedProduct, showCheckout>>
    /\ ViewOnly

\* the - and + buttons of a cart line (App.js:402-412)
ClickQuantity(i, delta) ==
    /\ Page /\ showCart /\ i \in 1..Len(cart.items) /\ nActions < MaxActions
    /\ updateCartItem(cart.items[i].product_id, cart.items[i].quantity + delta)
    /\ UNCHANGED <<selectedProduct, showCart, showCheckout, customerInfo>>
    /\ CallOnly

\* the bin button of a cart line (App.js:415-417)
ClickRemove(i) ==
    /\ Page /\ showCart /\ i \in 1..Len(cart.items) /\ nActions < MaxActions
    /\ removeFromCart(cart.items[i].product_id)
    /\ UNCHANGED <<selectedProduct, showCart, showCheckout, customerInfo>>
    /\ CallOnly

\* a Checkout button that closes the cart modal as it opens the checkout modal
ClickCheckoutClosesCart ==
    /\ Page /\ showCart /\ Len(cart.items) # 0
    /\ showCheckout' = TRUE
    /\ showCart' = FALSE
    /\ UNCHANGED selectedProduct
    /\ ViewOnly

\* Checkout in the cart modal, rendered for a non-empty cart (App.js:373, 438-440)
ClickCheckout ==
    /\ Page /\ showCart /\ Len(cart.items) # 0
    /\ showCheckout' = TRUE
    /\ UNCHANGED <<selectedProduct, showCart>>
    /\ ViewOnly

\* the x of the checkout modal (App.js:460-462)
CloseCheckout ==
    /\ Page /\ showCheckout
    /\ showCheckout' = FALSE
    /\ UNCHANGED <<selectedProduct, showCart>>
    /\ ViewOnly

\* typing into a field of the checkout form (App.js:475, 486, 497, 507); the
\* user fills the form in top to bottom: the field edited has the fields above
\* it filled in and the fields below it empty
TypeField(i, v) ==
    /\ Page /\ showCheckout
    /\ \A j \in 1..Len(Fields) : (j < i => customerInfo[Fields[j]] # "")
                                /\ (j > i => customerInfo[Fields[j]] = "")
    /\ customerInfo' = [customerInfo EXCEPT ![Fields[i]] = v]
    /\ UNCHANGED <<products, cart, selectedProduct, showCart, showCheckout,
                   sessionId, loading, mounted, net, nIssued, nActions,
                   serverCarts, orders, consoleErrors, alerts, lastCarried>>

\* the browser lets the form submit: every required field is filled in
\* (App.js:473, 484, 495, 505)
FormValid == \A i \in 1..Len(Fields) : customerInfo[Fields[i]] # ""

\* Place Order: the form's submit event (App.js:468, 517-522)
SubmitForm ==
    /\ Page /\ showCheckout /\ FormValid /\ nActions < MaxActions
    /\ submitOrder
    /\ UNCHANGED selectedProduct
    /\ CallOnly

UserEvent ==
    \/ ClickCart
    \/ \E i \in 1..Len(Catalog) : ClickViewDetails(i)
    \/ \E i \in 1..Len(Catalog) : ClickAddToCart(i)
    \/ CloseProduct
    \/ ClickModalAddToCart
    \/ CloseCart
    \/ \E i \in 1..Len(Catalog), delta \in {-1, 1} : ClickQuantity(i, delta)
    \/ \E i \in 1..Len(Catalog) : ClickRemove(i)
    \/ ClickCheckout
    \/ CloseCheckout
    \/ \E i \in 1..Len(Fields), v \in FieldValues : TypeField(i, v)
    \/ SubmitForm

Continuation ==
    \/ \E r \in net : fetchProductsThen(r)
    \/ \E r \in net : fetchProductsCatch(r)
    \/ \E r \in net : fetchCartThen(r)
    \/ \E r \in net : fetchCartCatch(r)
    \/ \E r \in net : addToCartThen(r)
    \/ \E r \in net : addToCartCatch(r)
    \/ \E r \in net : updateCartItemThen(r)
    \/ \E r \in net : updateCartItemCatch(r)
    \/ \E r \in net : removeFromCartThen(r)
    \/ \E r \in net : removeFromCartCatch(r)
    \/ \E r \in net : submitOrderThen(r)
    \/ \E r \in net : submitOrderCatch(r)

Backend ==
    \/ \E r \in net : ServerServe(r)
    \/ \E r \in net : ServerRefuse(r)

Next == MountEffect \/ UserEvent \/ Continuation \/ Backend

Spec == Init /\ [][Next]_vars

(* ------------------------------ claims -------------------------------- *)

\* the requests a step sends: those of net' whose id no request of net has
Sent == {q \in net' : \A r \in net : r.id # q.id}

\* the requests a step takes out of flight (its continuation ran)
Handled == {r \in net : \A q \in net' : q.id # r.id}

WellFormed(c) == ~Throws(c) /\ "items" \in DOMAIN c /\ "total" \in DOMAIN c

\* C1: a step in which the user adds, updates or removes a cart line sends
\* exactly one request (POST add, PUT update or DELETE remove) and leaves the
\* local cart as it was; and every step that changes the local cart handles a
\* parsed answer: of add or update, setting the cart to the answer's cart
\* field, or of the cart GET (mounted, or following a remove), setting it to
\* the answer's body (or of the order, which resets the cart: see C10).
C1_RoundTrip ==
    [][ /\ (nActions' # nActions /\ \E q \in Sent : q.kind # "order")
            => /\ \E q \in Sent : /\ net' = net \cup {q}
                                 /\ q.kind \in {"add", "update", "remove"}
                                 /\ q.stage = "sent"
               /\ cart' = cart
        /\ (cart' # cart)
            => \E r \in Handled :
                 /\ r.stage = "answered" /\ r.resp.parseable
                 /\ \/ r.kind \in {"add", "update"} /\ cart' = Get(r.resp.data, "cart")
                    \/ r.kind = "cart" /\ cart' = r.resp.data
                    \/ r.kind = "order" /\ cart' = EmptyCart
      ]_vars

\* C1 witness: the answer to an add has been handled and the local cart holds
\* the line the backend put into it
C1_Witness ==
    /\ mounted /\ alerts.added > 0
    /\ WellFormed(cart) /\ Len(cart.items) > 0 /\ cart = serverCarts[sessionId]

\* C2: a step that handles a failed call (it reports to the console) leaves
\* products, cart, selectedProduct, showCart, showCheckout and customerInfo
\* unchanged and sends no request; it takes exactly the failed call out of
\* flight, alerts only for a failed order, and sets loading to false only for
\* a failed product fetch.
C2_FailureKeepsState ==
    [][ consoleErrors' # consoleErrors =>
          /\ consoleErrors' = consoleErrors + 1
          /\ UNCHANGED <<products, cart, selectedProduct, showCart, showCheckout,
                         customerInfo, sessionId>>
          /\ Sent = {} /\ nIssued' = nIssued
          /\ \E r \in Handled :
                /\ net' = net \ {r}
                /\ alerts' = IF r.kind = "order"
                             THEN [alerts EXCEPT !.orderError = @ + 1] ELSE alerts
                /\ loading' = IF r.kind = "products" THEN FALSE ELSE loading
      ]_vars

\* C2 witness: a cart call and an order have both failed while the cart held
\* a line and the form was filled in
C2_Witness ==
    /\ consoleErrors >= 2 /\ alerts.orderError > 0
    /\ mounted /\ Len(cart.items) > 0 /\ FormValid /\ showCheckout

\* C3 as claimed: at most one request is in flight
C3_OneInFlight == Cardinality(net) <= 1

\* C3 as amended: the calls of one handler invocation are sequential: no two
\* requests in flight come from the same invocation (removeFromCart's cart GET
\* is sent only when its DELETE has been answered)
C3_SequentialPerInvocation ==
    \A r1, r2 \in net : r1.inv = r2.inv => r1 = r2

\* C3 witness: the cart GET of a removeFromCart is in flight, its DELETE is
\* not, and a request of another invocation is in flight with it
C3_Witness ==
    \E r \in net : /\ r.kind = "cart" /\ r.inv # r.id
                   /\ \E q \in net : q.inv # r.inv

\* C4: the session id never changes, and every request in flight other than
\* the product list carries it, in its URL and, for an order, in its body
C4_OneSession ==
    [][ /\ sessionId' = sessionId
        /\ \A r \in net' : r.kind # "products" =>
              /\ r.session = sessionId
              /\ r.kind = "order" => r.body.session_id = sessionId
      ]_vars

\* C4 witness: an order and a cart request made at different times are in
\* flight together
C4_Witness ==
    \E r, q \in net : r.kind = "order" /\ q.kind \in {"add", "update", "remove", "cart"}

\* C5 as claimed: at most one of the three modals is open
C5_OneView ==
    Cardinality({v \in {"product", "cart", "checkout"} :
                    \/ v = "product" /\ selectedProduct # Null
                    \/ v = "cart" /\ showCart
                    \/ v = "checkout" /\ showCheckout}) <= 1

\* C5 as amended: the checkout modal opens only over the cart modal of a
\* non-empty cart, and the cart modal stays open under it
C5_CheckoutOverCart ==
    [][ (~showCheckout /\ showCheckout')
            => showCart /\ showCart' /\ Len(cart.items) > 0 ]_vars

\* C5 witness: the cart modal and the checkout modal are open together
C5_Witness == mounted /\ showCart /\ showCheckout

\* C6: while the component is mounted, the local cart is the empty cart with
\* total 0 (the initial value, or the reset after an order) or its total is
\* the total of the cart carried by the cart answer handled last (no total
\* when that answer carried none)
C6_ServerTotal ==
    mounted =>
        \/ cart = EmptyCart
        \/ IF ~Throws(lastCarried) /\ "total" \in DOMAIN lastCarried
           THEN ~Throws(cart) /\ "total" \in DOMAIN cart /\ cart.total = lastCarried.total
           ELSE Throws(cart) \/ "total" \notin DOMAIN cart

\* C6 witness: the local total is that of an answered add of two units, and
\* an earlier answer carrying another total is still in flight
C6_Witness ==
    /\ mounted /\ WellFormed(cart) /\ cart.total = 4
    /\ \E r \in net : /\ r.stage = "answered" /\ r.resp.parseable
                      /\ r.kind = "add" /\ r.resp.data.cart.total = 2

\* C7: a step that sends a create-order request sends that request only; its
\* session_id is the session id, its items and total are the local cart's and
\* its customer_info is the form's four fields, all as they are when the step
\* is taken
C7_OrderBody ==
    [][ \A q \in Sent : q.kind = "order" =>
          /\ net' = net \cup {q}
          /\ q.body = [session_id |-> sessionId, items |-> cart.items,
                       total |-> cart.total,
                       customer_info |-> [name |-> customerInfo.name,
                                          email |-> customerInfo.email,
                                          phone |-> customerInfo.phone,
                                          address |-> customerInfo.address]]
      ]_vars

\* C7 witness: an order for a non-empty cart with a filled-in form is in flight
C7_Witness ==
    \E r \in net : /\ r.kind = "order" /\ r.stage = "sent"
                   /\ Len(r.body.items) > 0 /\ r.body.total > 0
                   /\ r.body.customer_info.address = "a"

\* C8 as claimed, for runs of adds and updates: once nothing is in flight and
\* every request was answered successfully (nothing was reported to the
\* console, the component is mounted, no remove and no order was made), the
\* local cart is the cart the backend holds for the session
C8_Converges ==
    ( /\ mounted /\ ~loading /\ net = {}
      /\ consoleErrors = 0
      /\ nIssued = 2 + nActions
      /\ alerts.orderOk = 0 )
        => cart = serverCarts[sessionId]

\* C9 as claimed: the local cart always has a list items and a numeric total
C9_CartShape == WellFormed(cart)

\* C10 as claimed: a step that takes the order request out of flight either
\* handles the answer of an order the backend accepted, and then closes both
\* modals, empties the cart and the form and leaves products and
\* selectedProduct alone; or handles a failure, and then reports it and leaves
\* the checkout modal, the cart and the form as they were
C10_OrderOutcome ==
    [][ \A r \in Handled : (r.kind = "order" /\ mounted) =>
          \/ /\ r.stage = "answered" /\ r.resp.status = "ok"
             /\ ~showCheckout' /\ ~showCart'
             /\ cart' = EmptyCart /\ customerInfo' = EmptyInfo
             /\ UNCHANGED <<products, selectedProduct>>
          \/ /\ consoleErrors' = consoleErrors + 1
             /\ UNCHANGED <<showCheckout, cart, customerInfo, products, selectedProduct>>
      ]_vars

\* C11 as claimed: no create-order request in flight has an empty item list
C11_NoEmptyOrder ==
    \A r \in net : r.kind = "order" => Len(r.body.items) > 0

====
